---- MODULE Spec2Model ----
(***************************************************************************)
(* Frame, FrameSet and RuleBasedFrameTracker of rasa/core/frames.py.       *)
(*                                                                         *)
(* The state is one FrameSet object (its `frames` list and its             *)
(* `current_frame_idx`) together with a record of the last call made on    *)
(* it: the operation, its inputs and whether it returned or raised.        *)
(* An exception leaves the object as it was at the raising line.           *)
(***************************************************************************)
EXTENDS Integers, Sequences, FiniteSets, TLC

\* ---------------------------------------------------------------- bounds
\* Calls made on one FrameSet after its construction.
MaxOps == 2
\* Timestamps are 1..MaxTs.
MaxTs == 2
\* Tracker turns made on one FrameSet when nothing else is called on it.
MaxTurns == 4

\* ------------------------------------------------------- Python's Optional
None == <<>>
Some(v) == <<v>>

\* ---------------------------------------------------------------- inputs
Timestamps == 1..MaxTs

\* A tracker slot: the two fields the module reads (slot.value, slot.frame_slot).
Slot(value, frame_slot) == [value |-> value, frame_slot |-> frame_slot]

SlotNames == {"city", "price"}

CitySlots == {Slot(None, TRUE), Slot(Some("NYC"), TRUE), Slot(Some("LA"), TRUE)}

PriceSlots == {Slot(Some("low"), TRUE), Slot(Some("low"), FALSE)}

\* tracker.slots: every slot name of the domain maps to a Slot.
SlotMappings ==
    {m \in [SlotNames -> CitySlots \cup PriceSlots] :
        m["city"] \in CitySlots /\ m["price"] \in PriceSlots}

\* Dialogue acts drawn as inputs: the two special-cased acts, an act that
\* carries a reference, and an act outside the list.
TurnActs == {"inform", "switch_frame", "affirm", "greet"}

\* ------------------------------------------------------------- Frame
\* Frame.__init__: last_active = created if switch_to else None.
Frame(idx, slots, created, switch_to) ==
    [idx |-> idx, slots |-> slots, created |-> created,
     last_active |-> IF switch_to THEN Some(created) ELSE None]

\* Frame.__getitem__: self.slots.get(key, None).
FrameGet(frame, key) ==
    IF key \in DOMAIN frame.slots THEN Some(frame.slots[key]) ELSE None

\* Frame.__setitem__: self.slots[key] = value.
FrameSetItem(frame, key, value) ==
    [frame EXCEPT !.slots =
        [k \in (DOMAIN frame.slots) \cup {key} |->
            IF k = key THEN value ELSE frame.slots[k]]]

\* ------------------------------------------------------------- FrameSet
\* The FrameSet object: its two attributes.
FS(fr, cur) == [frames |-> fr, current_frame_idx |-> cur]

\* The outcome of a call: the object afterwards and "ok" or the exception.
Result(fs, err) == [fs |-> fs, err |-> err]

\* get_framed_slots without the frame_slot test.
get_framed_slots_any_slot(slots) ==
    [name \in {n \in DOMAIN slots : slots[n].value # None}
        |-> slots[name].value[1]]

\* FrameSet.get_framed_slots on a mapping name -> Slot.
get_framed_slots(slots) ==
    [name \in {n \in DOMAIN slots :
                  slots[n].frame_slot /\ slots[n].value # None}
        |-> slots[name].value[1]]

\* FrameSet.get_framed_slots on a mapping name -> raw value (what
\* handle_inform passes to add_frame): `slot.frame_slot` is read on the first
\* item, and a raw value has no such attribute.
get_framed_slots_err(values) ==
    IF DOMAIN values = {} THEN "ok" ELSE "AttributeError"

\* Python list indexing self.frames[idx]: valid for -len <= idx < len.
IndexInRange(fr, idx) == -Len(fr) <= idx /\ idx < Len(fr)

\* The 1-based position that Python index idx denotes.
Pos(fr, idx) == IF idx < 0 THEN Len(fr) + idx + 1 ELSE idx + 1

\* FrameSet.current_frame: self.frames[self.current_frame_idx]; the
\* exception it raises, or "ok".
current_frame_err(fs) ==
    IF fs.current_frame_idx = None THEN "TypeError"
    ELSE IF ~IndexInRange(fs.frames, fs.current_frame_idx[1]) THEN "IndexError"
    ELSE "ok"

\* Position of the current frame (when current_frame_err is "ok").
CurPos(fs) == Pos(fs.frames, fs.current_frame_idx[1])

current_frame(fs) == fs.frames[CurPos(fs)]

\* FrameSet.__init__ building its first frame without switch_to.
FrameSetInit_not_switched(init_slots, created) ==
    FS(<<Frame(0, get_framed_slots(init_slots), created, FALSE)>>, Some(0))

\* FrameSet.__init__.
FrameSetInit(init_slots, created) ==
    FS(<<Frame(0, get_framed_slots(init_slots), created, TRUE)>>, Some(0))

\* The keys dict.__init__ stores in the FrameSet (line 42). FrameSet defines
\* no __iter__, so iterating a FrameSet iterates these keys.
FrameSetKeys == <<"init_slots", "created">>

\* FrameSet.reset.
reset(fs) == FS(<<>>, None)

\* add_frame numbering the new frame from 1 instead of from the list length.
add_frame_idx_from_one(fs, slots, created, switch_to) ==
    FS(Append(fs.frames,
              Frame(Len(fs.frames) + 1, get_framed_slots(slots), created,
                    switch_to)),
       fs.current_frame_idx)

\* FrameSet.add_frame on a mapping name -> Slot.
add_frame(fs, slots, created, switch_to) ==
    FS(Append(fs.frames,
              Frame(Len(fs.frames), get_framed_slots(slots), created, switch_to)),
       fs.current_frame_idx)

\* activate_frame stamping every frame instead of the one activated.
activate_frame_stamps_all(fs, idx, timestamp) ==
    IF IndexInRange(fs.frames, idx)
    THEN Result(FS([q \in 1..Len(fs.frames) |->
                       [fs.frames[q] EXCEPT !.last_active = Some(timestamp)]],
                   Some(idx)),
                "ok")
    ELSE Result(FS(fs.frames, Some(idx)), "IndexError")

\* FrameSet.activate_frame: the index is stored first, then the list is
\* indexed.
activate_frame(fs, idx, timestamp) ==
    IF IndexInRange(fs.frames, idx)
    THEN Result(FS([fs.frames EXCEPT ![Pos(fs.frames, idx)].last_active =
                        Some(timestamp)],
                   Some(idx)),
                "ok")
    ELSE Result(FS(fs.frames, Some(idx)), "IndexError")

\* ------------------------------------------------- RuleBasedFrameTracker
\* tracker.current_frame_idx, read at line 196: the tracker exposes the index
\* of its FrameSet.
tracker_current_frame_idx(fs) == fs.current_frame_idx

\* acts_with_ref of update_frames, as written (it lists inform and
\* switch_frame too; the dispatch tests those two first).
acts_with_ref ==
    {"affirm", "canthelp", "confirm", "hearmore", "inform", "moreinfo",
     "negate", "no_result", "offer", "request", "request_compare", "suggest",
     "switch_frame"}

\* The indices enumerate(tracker.frames) yields: tracker.frames is the
\* FrameSet, so the loop variable `frame` is one of FrameSetKeys, a str.
EnumeratedIdx == 0..(Len(FrameSetKeys) - 1)

\* handle_inform. The loop breaks at the first framed slot that differs from
\* the current frame; the `else` of the for loop, which calls add_frame, runs
\* only when the loop did not break. add_frame is handed the projection
\* (name -> raw value), which it projects again.
handle_inform(fs, slots, timestamp) ==
    LET framed_slots == get_framed_slots(slots)
        broke == \E key \in DOMAIN framed_slots :
                     FrameGet(current_frame(fs), key) # slots[key].value
    IN  IF broke THEN Result(fs, "ok")
        ELSE IF get_framed_slots_err(framed_slots) # "ok"
             THEN Result(fs, get_framed_slots_err(framed_slots))
             ELSE Result(FS(Append(fs.frames,
                                   Frame(Len(fs.frames), framed_slots,
                                         timestamp, TRUE)),
                            fs.current_frame_idx),
                         "ok")

\* handle_switch_frame. For a framed slot that differs from the current
\* frame, every enumerated index other than current_frame_idx evaluates
\* `frame[key]` with frame a str and key a str: TypeError. When no such
\* lookup is evaluated equality_counts stays empty, best_matches is [], and
\* the else branch sorts the FrameSet by `f.last_active`, which a str does
\* not have: AttributeError.
handle_switch_frame(fs, slots, timestamp) ==
    LET framed_slots == get_framed_slots(slots)
        differing == {key \in DOMAIN framed_slots :
                         FrameGet(current_frame(fs), key) # Some(framed_slots[key])}
        looked_up == {idx \in EnumeratedIdx : Some(idx) # fs.current_frame_idx}
        best_matches == <<>>
    IN  IF differing # {} /\ looked_up # {}
        THEN Result(fs, "TypeError")
        ELSE IF best_matches # <<>>
                  /\ best_matches[1][2] = Cardinality(DOMAIN framed_slots)
             THEN activate_frame(fs, best_matches[1][1], timestamp)
             ELSE IF EnumeratedIdx # {}
                  THEN Result(fs, "AttributeError")
                  ELSE Result(fs, "IndexError")

\* handle_act_with_ref recording the position after the current frame.
handle_act_with_ref_next_idx(fs, slots, timestamp) ==
    IF DOMAIN get_framed_slots(slots) # {} /\ EnumeratedIdx # {}
    THEN Result(fs, "TypeError")
    ELSE Result(FS([fs.frames EXCEPT ![CurPos(fs)] =
                       FrameSetItem(@, "ref", fs.current_frame_idx[1] + 1)],
                   fs.current_frame_idx),
                "ok")

\* handle_act_with_ref. With at least one framed slot the first comparison
\* `frame[key] == slot.value` indexes a str with a str: TypeError. With none,
\* equality_counts is empty, best_matches is [], and the last else sets ref to
\* the tracker's current frame index.
handle_act_with_ref(fs, slots, timestamp) ==
    LET framed_slots == get_framed_slots(slots)
        p == CurPos(fs)
    IN  IF DOMAIN framed_slots # {} /\ EnumeratedIdx # {}
        THEN Result(fs, "TypeError")
        ELSE Result(FS([fs.frames EXCEPT ![p] =
                           FrameSetItem(@, "ref", tracker_current_frame_idx(fs)[1])],
                       fs.current_frame_idx),
                    "ok")

\* default_branch with the current frame's mapping replaced by the projection
\* instead of updated key by key.
default_branch_replaces(fs, slots) ==
    Result(FS([fs.frames EXCEPT ![CurPos(fs)].slots = get_framed_slots(slots)],
              fs.current_frame_idx),
           "ok")

\* The default branch of update_frames: every framed slot is written into the
\* current frame.
default_branch(fs, slots) ==
    LET framed_slots == get_framed_slots(slots)
        p == CurPos(fs)
        old == fs.frames[p].slots
    IN  Result(FS([fs.frames EXCEPT ![p].slots =
                      [k \in (DOMAIN old) \cup (DOMAIN framed_slots) |->
                          IF k \in DOMAIN framed_slots THEN framed_slots[k]
                          ELSE old[k]]],
                  fs.current_frame_idx),
               "ok")

\* update_frames testing membership in acts_with_ref before the two
\* special-cased acts, which the list names too.
update_frames_ref_first(fs, dialogue_act, slots, timestamp) ==
    IF current_frame_err(fs) # "ok" THEN Result(fs, current_frame_err(fs))
    ELSE IF dialogue_act \in acts_with_ref
         THEN handle_act_with_ref(fs, slots, timestamp)
    ELSE IF dialogue_act = "inform" THEN handle_inform(fs, slots, timestamp)
    ELSE IF dialogue_act = "switch_frame"
         THEN handle_switch_frame(fs, slots, timestamp)
    ELSE default_branch(fs, slots)

\* update_frames: tracker.current_frame is read first (line 105), then the
\* act is dispatched.
update_frames(fs, dialogue_act, slots, timestamp) ==
    IF current_frame_err(fs) # "ok" THEN Result(fs, current_frame_err(fs))
    ELSE IF dialogue_act = "inform" THEN handle_inform(fs, slots, timestamp)
    ELSE IF dialogue_act = "switch_frame"
         THEN handle_switch_frame(fs, slots, timestamp)
    ELSE IF dialogue_act \in acts_with_ref
         THEN handle_act_with_ref(fs, slots, timestamp)
    ELSE default_branch(fs, slots)

\* ---------------------------------------------------------------- state
VARIABLES
    frames,             \* FrameSet.frames
    current_frame_idx,  \* FrameSet.current_frame_idx (None after reset)
    was_reset,          \* reset() has been called on this FrameSet
    call,               \* the last call: operation and inputs
    err,                \* "ok" or the exception the last call raised
    nops                \* calls made since construction

vars == <<frames, current_frame_idx, was_reset, call, err, nops>>

TheFS == FS(frames, current_frame_idx)

Install(r) ==
    /\ frames' = r.fs.frames
    /\ current_frame_idx' = r.fs.current_frame_idx
    /\ err' = r.err
    /\ nops' = nops + 1

\* FrameSet(init_slots, created).
Init ==
    \E init_slots \in SlotMappings, created \in Timestamps :
        /\ frames = FrameSetInit(init_slots, created).frames
        /\ current_frame_idx = FrameSetInit(init_slots, created).current_frame_idx
        /\ was_reset = FALSE
        /\ call = [op |-> "FrameSet", slots |-> init_slots, created |-> created]
        /\ err = "ok"
        /\ nops = 0

\* Indices handed to activate_frame for a list of n frames: every valid
\* index, the first index past each end, and -1.
ActivateIdx(n) == (0..n) \cup {-1, -(n + 1)}

AddFrame ==
    \E sl \in SlotMappings, created \in Timestamps, switch_to \in BOOLEAN :
        /\ nops < MaxOps
        /\ Install(Result(add_frame(TheFS, sl, created, switch_to), "ok"))
        /\ call' = [op |-> "add_frame", slots |-> sl, created |-> created,
                    switch_to |-> switch_to]
        /\ UNCHANGED was_reset

ActivateFrame ==
    \E idx \in ActivateIdx(Len(frames)), timestamp \in Timestamps :
        /\ nops < MaxOps
        /\ Install(activate_frame(TheFS, idx, timestamp))
        /\ call' = [op |-> "activate_frame", idx |-> idx, timestamp |-> timestamp]
        /\ UNCHANGED was_reset

Reset ==
    /\ nops < MaxOps
    /\ Install(Result(reset(TheFS), "ok"))
    /\ was_reset' = TRUE
    /\ call' = [op |-> "reset"]

UpdateFrames ==
    \E dialogue_act \in TurnActs, sl \in SlotMappings, timestamp \in Timestamps :
        /\ nops < MaxOps
        /\ Install(update_frames(TheFS, dialogue_act, sl, timestamp))
        /\ call' = [op |-> "update_frames", intent |-> dialogue_act,
                    slots |-> sl, timestamp |-> timestamp]
        /\ UNCHANGED was_reset

Next == AddFrame \/ ActivateFrame \/ Reset \/ UpdateFrames

Spec == Init /\ [][Next]_vars

\* ------------------------------------- get_framed_slots on every mapping
\* Every slot mapping over the two slot names: each value absent or one of
\* two values, each slot framed or not.
AllSlotMappings ==
    [SlotNames -> [value : {None, Some("NYC"), Some("LA")},
                   frame_slot : BOOLEAN]]

\* FrameSet(init_slots, created) on any of these mappings.
InitProjection ==
    \E init_slots \in AllSlotMappings, created \in Timestamps :
        /\ frames = FrameSetInit(init_slots, created).frames
        /\ current_frame_idx = FrameSetInit(init_slots, created).current_frame_idx
        /\ was_reset = FALSE
        /\ call = [op |-> "FrameSet", slots |-> init_slots, created |-> created]
        /\ err = "ok"
        /\ nops = 0

\* One add_frame on any of these mappings.
AddFrameProjection ==
    \E sl \in AllSlotMappings, created \in Timestamps, switch_to \in BOOLEAN :
        /\ nops = 0
        /\ Install(Result(add_frame(TheFS, sl, created, switch_to), "ok"))
        /\ call' = [op |-> "add_frame", slots |-> sl, created |-> created,
                    switch_to |-> switch_to]
        /\ UNCHANGED was_reset

NextProjection == AddFrameProjection

SpecProjection == InitProjection /\ [][NextProjection]_vars

\* ------------------------------------------------------ tracker turns only
\* A tracker turn on a FrameSet that only the tracker touches.
UpdateFramesOnly ==
    \E dialogue_act \in TurnActs, sl \in SlotMappings, timestamp \in Timestamps :
        /\ nops < MaxTurns
        /\ Install(update_frames(TheFS, dialogue_act, sl, timestamp))
        /\ call' = [op |-> "update_frames", intent |-> dialogue_act,
                    slots |-> sl, timestamp |-> timestamp]
        /\ UNCHANGED was_reset

NextTurns == UpdateFramesOnly

SpecTurns == Init /\ [][NextTurns]_vars

\* ------------------------------------------------------------ properties
\* Vocabulary of the properties. A step is a tracker turn of a given act when
\* the call it records is update_frames with that intent; the unprimed
\* variables are the FrameSet before the turn, the primed ones after it.

\* The acts that carry a reference and are not dispatched earlier.
RefActs == acts_with_ref \ {"inform", "switch_frame"}

\* active_index points at an existing frame.
ActiveIndexValid ==
    /\ current_frame_idx # None
    /\ 0 <= current_frame_idx[1]
    /\ current_frame_idx[1] < Len(frames)

Indices == 0..(Len(frames) - 1)

FrameAt(i) == frames[i + 1]

\* Framed slots of a projection whose value differs from the current frame's.
Differing(proj) ==
    {k \in DOMAIN proj :
        FrameGet(FrameAt(current_frame_idx[1]), k) # Some(proj[k])}

\* Frame i agrees with the projection on every key of keys.
AgreesOn(i, keys, proj) ==
    \A k \in keys : FrameGet(FrameAt(i), k) = Some(proj[k])

\* Frames other than the current one that match every differing framed slot.
SwitchFullMatches(proj) ==
    {i \in Indices \ {current_frame_idx[1]} :
        Differing(proj) # {} /\ AgreesOn(i, Differing(proj), proj)}

\* Frames, the current one included, that match every framed slot.
RefFullMatches(proj) == {i \in Indices : AgreesOn(i, DOMAIN proj, proj)}

\* Frames with the most recent last_active.
MostRecentlyActive ==
    {j \in Indices :
        /\ FrameAt(j).last_active # None
        /\ \A i \in Indices :
              FrameAt(i).last_active # None
                  => FrameAt(i).last_active[1] <= FrameAt(j).last_active[1]}

\* After the step, index j is active and was activated at timestamp t.
ActivatedAfter(j, t) ==
    /\ current_frame_idx' = Some(j)
    /\ frames'[j + 1].last_active = Some(t)

\* After the step, the frame that was current before it has ref = j.
RefAfter(j) == FrameGet(frames'[current_frame_idx[1] + 1], "ref") = Some(j)

IsTurn(c, acts) == c.op = "update_frames" /\ c.intent \in acts

\* C1: an inform turn on which some framed slot of the projection differs
\* from the current frame appends exactly one frame holding the projection,
\* created at the utterance timestamp, and makes it the active frame.
C1_InformShiftAddsActiveFrame ==
    [][(/\ IsTurn(call', {"inform"})
        /\ ActiveIndexValid
        /\ Differing(get_framed_slots(call'.slots)) # {})
       => (/\ Len(frames') = Len(frames) + 1
           /\ SubSeq(frames', 1, Len(frames)) = frames
           /\ frames'[Len(frames')].slots = get_framed_slots(call'.slots)
           /\ frames'[Len(frames')].created = call'.timestamp
           /\ current_frame_idx' = Some(Len(frames)))]_vars

\* C2: an inform turn on which every framed slot of the projection equals the
\* current frame's value (zero framed slots included) leaves the FrameSet as
\* it was: same frames, same active index.
C2_InformConsistentIsNoOp ==
    [][(/\ IsTurn(call', {"inform"})
        /\ ActiveIndexValid
        /\ Differing(get_framed_slots(call'.slots)) = {})
       => (frames' = frames /\ current_frame_idx' = current_frame_idx)]_vars

\* C3: a switch_frame turn on which some other frame matches every differing
\* framed slot activates such a frame, with last_active = utterance timestamp.
C3_SwitchFullMatchActivates ==
    [][(/\ IsTurn(call', {"switch_frame"})
        /\ ActiveIndexValid
        /\ SwitchFullMatches(get_framed_slots(call'.slots)) # {})
       => (\E j \in SwitchFullMatches(get_framed_slots(call'.slots)) :
              ActivatedAfter(j, call'.timestamp))]_vars

\* C4: a switch_frame turn with no full match (no other frame matches every
\* differing framed slot, or there is none to match) activates a frame with
\* the most recent last_active among all frames, at the utterance timestamp.
C4_SwitchFallbackMostRecent ==
    [][(/\ IsTurn(call', {"switch_frame"})
        /\ ActiveIndexValid
        /\ SwitchFullMatches(get_framed_slots(call'.slots)) = {})
       => (\E j \in MostRecentlyActive :
              ActivatedAfter(j, call'.timestamp))]_vars

\* C5: a switch_frame turn on which no other frame agrees with the projection
\* on every framed slot of the projection takes the recency fallback: the
\* most recently active frame is activated.
C5_SwitchPartialFallsBack ==
    [][(/\ IsTurn(call', {"switch_frame"})
        /\ ActiveIndexValid
        /\ DOMAIN get_framed_slots(call'.slots) # {}
        /\ \A i \in Indices \ {current_frame_idx[1]} :
              ~AgreesOn(i, DOMAIN get_framed_slots(call'.slots),
                        get_framed_slots(call'.slots)))
       => (\E j \in MostRecentlyActive :
              ActivatedAfter(j, call'.timestamp))]_vars

\* C6: a reference-act turn on which exactly one frame matches every framed
\* slot sets the current frame's ref to that frame's index.
C6_RefSingleFullMatch ==
    [][(/\ IsTurn(call', RefActs)
        /\ ActiveIndexValid
        /\ DOMAIN get_framed_slots(call'.slots) # {}
        /\ Cardinality(RefFullMatches(get_framed_slots(call'.slots))) = 1)
       => (\E j \in RefFullMatches(get_framed_slots(call'.slots)) :
              RefAfter(j))]_vars

\* C7: a reference-act turn on which two or more frames match every framed
\* slot sets the current frame's ref to the most recently created of those
\* full-match frames.
C7_RefTieMostRecentlyCreated ==
    [][(/\ IsTurn(call', RefActs)
        /\ ActiveIndexValid
        /\ DOMAIN get_framed_slots(call'.slots) # {}
        /\ Cardinality(RefFullMatches(get_framed_slots(call'.slots))) >= 2)
       => (\E j \in RefFullMatches(get_framed_slots(call'.slots)) :
              /\ \A i \in RefFullMatches(get_framed_slots(call'.slots)) :
                    FrameAt(i).created <= FrameAt(j).created
              /\ RefAfter(j))]_vars

\* C8: a reference-act turn on which no frame matches every framed slot, or
\* whose projection has no framed slot, sets the current frame's ref to the
\* current frame's own index.
C8_RefNoFullMatchSelf ==
    [][(/\ IsTurn(call', RefActs)
        /\ ActiveIndexValid
        /\ \/ DOMAIN get_framed_slots(call'.slots) = {}
           \/ RefFullMatches(get_framed_slots(call'.slots)) = {})
       => RefAfter(current_frame_idx[1])]_vars

\* C9: a turn whose act is none of inform, switch_frame or a reference act,
\* made while a current frame exists, leaves the current frame holding the
\* projection's value under every framed slot key and its former value under
\* every other key, and leaves every other frame, the frame count and the
\* active index unchanged.
C9_DefaultSyncsCurrentFrame ==
    [][(/\ IsTurn(call', TurnActs \ acts_with_ref)
        /\ current_frame_err(TheFS) = "ok")
       => (LET proj == get_framed_slots(call'.slots)
               p == CurPos(TheFS)
           IN  /\ err' = "ok"
               /\ Len(frames') = Len(frames)
               /\ current_frame_idx' = current_frame_idx
               /\ \A q \in 1..Len(frames) : q # p => frames'[q] = frames[q]
               /\ DOMAIN frames'[p].slots = DOMAIN frames[p].slots \cup DOMAIN proj
               /\ \A k \in DOMAIN proj : frames'[p].slots[k] = proj[k]
               /\ \A k \in DOMAIN frames[p].slots \ DOMAIN proj :
                     frames'[p].slots[k] = frames[p].slots[k])]_vars

\* C9 witness: a default turn with a non-empty projection has completed on a
\* FrameSet of several frames whose current frame also holds a key outside
\* the projection.
C9_Witness ==
    /\ IsTurn(call, TurnActs \ acts_with_ref)
    /\ err = "ok"
    /\ Len(frames) >= 2
    /\ ActiveIndexValid
    /\ DOMAIN get_framed_slots(call.slots) # {}
    /\ DOMAIN FrameAt(current_frame_idx[1]).slots
           \ DOMAIN get_framed_slots(call.slots) # {}
    /\ \A k \in DOMAIN get_framed_slots(call.slots) :
          FrameAt(current_frame_idx[1]).slots[k] = get_framed_slots(call.slots)[k]

\* C10: as long as reset() has not been called, the active index points at
\* an existing frame, whatever calls were made, failed ones included.
C10_ActiveIndexAlwaysValid == (~was_reset) => ActiveIndexValid

\* C11: activate_frame raises an index error for every index outside
\* 0..count-1, negative indices included, and returns normally for every
\* index of an existing frame.
C11_ActivateFailsOutOfBounds ==
    [][(call'.op = "activate_frame")
       => (err' = (IF call'.idx \in Indices THEN "ok" ELSE "IndexError"))]_vars

\* C12: a tracker turn on a FrameSet whose active index is valid completes
\* without raising, whatever the act and the tracker slots.
C12_UpdateFramesTotal ==
    [][(IsTurn(call', TurnActs) /\ ActiveIndexValid) => err' = "ok"]_vars

\* C13: a successful activate_frame(i, t) makes i the active index, sets
\* last_active of frame i to t, and changes nothing else: same frame count,
\* every other frame as it was, frame i's idx, created and slots as they were.
C13_ActivateEffect ==
    [][(call'.op = "activate_frame" /\ err' = "ok")
       => (LET p == Pos(frames, call'.idx)
           IN  /\ current_frame_idx' = Some(call'.idx)
               /\ Len(frames') = Len(frames)
               /\ frames'[p].last_active = Some(call'.timestamp)
               /\ frames'[p].idx = frames[p].idx
               /\ frames'[p].created = frames[p].created
               /\ frames'[p].slots = frames[p].slots
               /\ \A q \in 1..Len(frames) : q # p => frames'[q] = frames[q])]_vars

\* C13 witness: an activation has succeeded on a FrameSet in which another
\* frame carries a last_active of its own, different from the one just set.
C13_Witness ==
    /\ call.op = "activate_frame"
    /\ err = "ok"
    /\ ActiveIndexValid
    /\ \E j \in Indices :
          /\ j # current_frame_idx[1]
          /\ FrameAt(j).last_active # None
          /\ FrameAt(j).last_active # FrameAt(current_frame_idx[1]).last_active

\* Every frame's idx is its position in the list, counted from 0.
DenseIndices(fr) == \A q \in 1..Len(fr) : fr[q].idx = q - 1

\* C14: as long as reset() has not been called the frame list is append-only
\* and densely indexed: the frame at position i has index i, add_frame gives
\* the new frame the frame count from before the call, the frame count never
\* decreases, and no existing frame's idx or created time changes.
C14_AppendOnlyDenseIndices ==
    [][(~was_reset')
       => (/\ DenseIndices(frames)
           /\ DenseIndices(frames')
           /\ Len(frames') >= Len(frames)
           /\ \A q \in 1..Len(frames) :
                 /\ frames'[q].idx = frames[q].idx
                 /\ frames'[q].created = frames[q].created
           /\ (call'.op = "add_frame"
                  => /\ Len(frames') = Len(frames) + 1
                     /\ frames'[Len(frames')].idx = Len(frames)))]_vars

\* C14 witness: add_frame has just appended a third frame to a FrameSet that
\* was never reset.
C14_Witness ==
    /\ ~was_reset
    /\ call.op = "add_frame"
    /\ Len(frames) = 3
    /\ frames[3].idx = 2

\* C15: constructing a FrameSet yields exactly one frame, with index 0,
\* holding the framed slots of the initial slots (those marked frame_slot
\* whose value is present), created and last active at the creation time, and
\* makes it the active frame.
C15_ConstructOneActiveFrame ==
    (call.op = "FrameSet")
       => (/\ Len(frames) = 1
           /\ frames[1].idx = 0
           /\ DOMAIN frames[1].slots =
                 {n \in DOMAIN call.slots :
                     call.slots[n].frame_slot /\ call.slots[n].value # None}
           /\ \A n \in DOMAIN frames[1].slots :
                 Some(frames[1].slots[n]) = call.slots[n].value
           /\ frames[1].created = call.created
           /\ frames[1].last_active = Some(frames[1].created)
           /\ current_frame_idx = Some(0))

\* C15 witness: a FrameSet has just been constructed from initial slots of
\* which one is framed and present and another is left out.
C15_Witness ==
    /\ call.op = "FrameSet"
    /\ DOMAIN frames[1].slots # {}
    /\ DOMAIN frames[1].slots # DOMAIN call.slots
    /\ call.created = MaxTs

\* C16: the framed-slot projection of a slot mapping has exactly the slot
\* names marked frame_slot whose value is present as its keys, each mapped to
\* that slot's value. It is observed in the frame that the constructor or
\* add_frame has just built from the mapping.
C16_ProjectionExact ==
    (call.op \in {"FrameSet", "add_frame"})
       => (LET built == frames[Len(frames)].slots
           IN  /\ \A n \in DOMAIN call.slots :
                     (n \in DOMAIN built)
                         <=> (call.slots[n].frame_slot = TRUE
                                 /\ call.slots[n].value # None)
               /\ DOMAIN built \subseteq DOMAIN call.slots
               /\ \A n \in DOMAIN built : Some(built[n]) = call.slots[n].value)

\* C16 witness: add_frame has projected a mapping in which one slot is framed
\* and present and the other is present but not framed.
C16_Witness ==
    /\ call.op = "add_frame"
    /\ call.slots["city"].frame_slot
    /\ call.slots["city"].value # None
    /\ ~call.slots["price"].frame_slot
    /\ call.slots["price"].value # None
    /\ DOMAIN frames[Len(frames)].slots = {"city"}

\* C17: last_active is present only on frames that have been the active
\* frame: a step that gives a frame a last_active it did not have (a new frame
\* born with one included) leaves that frame the active frame, and the active
\* frame always has a last_active.
C17_LastActiveOnlyIfActivated ==
    [][/\ \A q \in 1..Len(frames') :
             (/\ frames'[q].last_active # None
              /\ (q > Len(frames) \/ frames[q].last_active = None))
                => current_frame_idx' = Some(q - 1)
       /\ \A q \in 1..Len(frames') :
             (current_frame_idx' = Some(q - 1))
                => frames'[q].last_active # None]_vars

\* C18: a turn has only the effects of the one branch its act selects. An
\* inform or switch_frame turn writes no ref entry; a reference-act or default
\* turn changes neither the frame count, nor the active index, nor any frame's
\* created or last_active; a switch_frame turn changes neither the frame count
\* nor any frame's slot values.
C18_OnlyBranchEffects ==
    [][/\ IsTurn(call', {"inform", "switch_frame"})
          => \A q \in 1..Len(frames') :
                FrameGet(frames'[q], "ref")
                   = (IF q <= Len(frames) THEN FrameGet(frames[q], "ref")
                      ELSE None)
       /\ IsTurn(call', TurnActs \ {"inform", "switch_frame"})
          => /\ Len(frames') = Len(frames)
             /\ current_frame_idx' = current_frame_idx
             /\ \A q \in 1..Len(frames) :
                   /\ frames'[q].created = frames[q].created
                   /\ frames'[q].last_active = frames[q].last_active
       /\ IsTurn(call', {"switch_frame"})
          => /\ Len(frames') = Len(frames)
             /\ \A q \in 1..Len(frames) : frames'[q].slots = frames[q].slots]_vars

\* C18 witness: an inform turn has completed and appended a frame to a
\* FrameSet whose first frame already carried a ref entry.
C18_Witness ==
    /\ IsTurn(call, {"inform"})
    /\ err = "ok"
    /\ Len(frames) = 2
    /\ FrameGet(frames[1], "ref") # None
    /\ FrameGet(frames[2], "ref") = None

\* C19: on a FrameSet that only tracker turns have touched, every ref entry
\* stored in a frame is the index of an existing frame.
C19_RefsPointAtFrames ==
    \A q \in 1..Len(frames) :
        ("ref" \in DOMAIN frames[q].slots)
            => (0 <= frames[q].slots["ref"] /\ frames[q].slots["ref"] < Len(frames))

\* C19 witness: a reference-act turn has written a ref entry after earlier
\* turns had appended frames.
C19_Witness ==
    /\ IsTurn(call, RefActs)
    /\ err = "ok"
    /\ Len(frames) >= 3
    /\ \E q \in 1..Len(frames) : "ref" \in DOMAIN frames[q].slots

\* C20: an inform turn repeated with the same tracker slots and timestamp
\* right after the same inform turn leaves the frame count and the active
\* index as the first one left them.
C20_InformIdempotent ==
    [][(/\ IsTurn(call, {"inform"})
        /\ IsTurn(call', {"inform"})
        /\ call'.slots = call.slots
        /\ call'.timestamp = call.timestamp)
       => (/\ Len(frames') = Len(frames)
           /\ current_frame_idx' = current_frame_idx)]_vars

====
